---- MODULE Spec2Model ----
(***************************************************************************)
(* Model of the note service: the Note table (schemas.py), the session     *)
(* provider and schema management (db.py), the CRUD layer (crud.py, class  *)
(* Crud), the request handlers and their session dependency                *)
(* (notes_router.py) and the application life span (sql_api.py).           *)
(*                                                                         *)
(* Every request is one coroutine.  It is suspended at each store round    *)
(* trip (await), so the steps of different requests interleave at exactly  *)
(* those points; each action below is the code between two awaits.         *)
(***************************************************************************)
EXTENDS Integers, Sequences, FiniteSets, TLC

\* ------------------------------------------------------------------ bounds
NumReq   == 2      \* requests in flight at the same time
MaxId    == 2      \* primary keys the store hands out
MaxStr   == 2      \* distinct title / content values
MaxClock == 2      \* distinct values of the store's now()

Reqs     == 1..NumReq
Sessions == 1..NumReq
Ids      == 1..MaxId
Strs     == 1..MaxStr
Times    == 1..MaxClock

NoSess == 0
None   == 0

\* ------------------------------------------------------------- Note entity
\* schemas.py: class Note.  A row of the table "notes".
Note(id, title, content, date_created) ==
  [id |-> id, title |-> title, content |-> content, date_created |-> date_created]

NoNote == Note(None, None, None, None)

\* routers/models.py: NoteIn, the body of POST and PATCH.
NoteIn == [title : Strs, content : Strs]

NoArg == [id |-> None, title |-> None, content |-> None]
NoMsg == [kind |-> "none", title |-> None, id |-> None, date_created |-> None]
NoResult == [op |-> "none", status |-> "none", notes |-> << >>, msg |-> NoMsg]

VARIABLES
  app,          \* "stopped" | "started" (no request served yet) | "running"
  tableExists,  \* the table "notes" exists in the database
  table,        \* the committed rows of "notes"
  pc,           \* pc[r]: where request r is suspended
  op,           \* op[r]: the path operation request r runs
  arg,          \* arg[r]: note_id and NoteIn of request r
  holder,       \* holder[r]: the session injected into request r
  note,         \* note[r]: the ORM object the CRUD call works on
  committed,    \* committed[r]: the loaded values of note[r] (what a flush compares with)
  result,       \* result[r]: what the handler returned or raised
  txn,          \* txn[s]: session s has begun a transaction (holds a connection)
  flushed       \* flushed[s]: rows session s has inserted and not yet committed

vars == << app, tableExists, table, pc, op, arg, holder, note, committed,
           result, txn, flushed >>

reqVars  == << pc, op, arg, holder, note, committed, result >>
sessVars == << txn, flushed >>
dbVars   == << tableExists, table >>

\* ------------------------------------------------------------------ helpers
IdsOf(rows) == { row.id : row \in rows }

\* What a statement of session s reads: the committed rows and its own
\* uncommitted inserts.
View(s) == table \cup flushed[s]

\* Primary keys no row holds, committed or not.
FreeIds == Ids \ (IdsOf(table) \cup UNION { IdsOf(flushed[s]) : s \in Sessions })

Min(S) == CHOOSE x \in S : \A y \in S : x <= y

\* The rows in the opposite order (ORDER BY id DESC).
RECURSIVE OrderByIdDesc(_)
OrderByIdDesc(rows) ==
  IF rows = {} THEN << >>
  ELSE LET first == CHOOSE row \in rows : \A other \in rows : row.id >= other.id
       IN  << first >> \o OrderByIdDesc(rows \ {first})

RECURSIVE OrderById(_)
OrderById(rows) ==
  IF rows = {} THEN << >>
  ELSE LET first == CHOOSE row \in rows : \A other \in rows : row.id <= other.id
       IN  << first >> \o OrderById(rows \ {first})

\* crud.py: Crud.get_all_notes -- select(Note).order_by(Note.id), .scalars().all()
GetAllNotes(rows) == OrderById(rows)

\* A lookup that ignores the key and never raises while a row exists.
AnyNoteHelper(rows, note_id) ==
  IF rows /= {} THEN CHOOSE row \in rows : \A other \in rows : row.id <= other.id
  ELSE NoNote

\* crud.py: Crud._get_note_by_id_helper -- session.get(Note, note_id); NoNote
\* stands for "raise HTTPException(status_code=404)".
GetNoteByIdHelper(rows, note_id) ==
  IF \E row \in rows : row.id = note_id
  THEN CHOOSE row \in rows : row.id = note_id
  ELSE NoNote

\* The responses: 200 with a body, 201 (notes_router.py: status_code=201), the
\* HTTPException 404 of the helper with the id in its detail, and the 500 of an
\* exception nothing catches.
Ok(o, notes, msg) == [op |-> o, status |-> "ok", notes |-> notes, msg |-> msg]
Created(o, msg) == [op |-> o, status |-> "created", notes |-> << >>, msg |-> msg]
NotFound(o, note_id) ==
  [op |-> o, status |-> "not_found", notes |-> << >>,
   msg |-> [kind |-> "not_found", title |-> None, id |-> note_id, date_created |-> None]]
ServerError(o) == [op |-> o, status |-> "server_error", notes |-> << >>, msg |-> NoMsg]

\* ---------------------------------------------------------------- life span
\* A start that rebuilds the schema (drop_all, then create_all).
InitDbRecreate(exists, rows) == [exists |-> TRUE, rows |-> {}]

\* db.py: init_db -- Base.metadata.create_all creates the table if absent.
InitDb(exists, rows) ==
  [exists |-> TRUE, rows |-> IF exists THEN rows ELSE {}]

\* db.py: reset_db -- drop_all, then create_all.
ResetDbEffect(exists, rows) == [exists |-> TRUE, rows |-> {}]

\* sql_api.py: life_span, before the yield.
Startup ==
  /\ app = "stopped"
  /\ app' = "started"
  /\ LET db == InitDb(tableExists, table)
     IN  /\ tableExists' = db.exists
         /\ table' = db.rows
  /\ UNCHANGED << reqVars, sessVars >>

\* sql_api.py: life_span, after the yield: engine.dispose().
Shutdown ==
  /\ app \in {"started", "running"}
  /\ \A r \in Reqs : pc[r] = "idle"
  /\ app' = "stopped"
  /\ UNCHANGED << dbVars, reqVars, sessVars >>

\* db.py: python -m sql_explorer.database.db runs reset_db in one transaction;
\* the schema change waits for the writers.
ResetDb ==
  /\ \A s \in Sessions : flushed[s] = {}
  /\ LET db == ResetDbEffect(tableExists, table)
     IN  /\ tableExists' = db.exists
         /\ table' = db.rows
  /\ UNCHANGED << app, reqVars, sessVars >>

\* ----------------------------------------------------------------- sessions
\* One session object for the whole module.
SharedSession(held, r) == Min(Sessions)

\* db.py: db_session() -- the sessionmaker returns a new Session object.
NewSession(held, r) == IF r \notin held THEN r ELSE Min(Sessions \ held)

\* notes_router.py: establish_session_to_db, up to the yield; the handler's
\* parameters are bound.
Acquire(r) ==
  /\ app \in {"started", "running"}
  /\ app' = "running"
  /\ pc[r] = "idle"
  /\ \E o \in {"list", "create", "get", "update", "delete"} :
       \E a \in [id : Ids, title : Strs, content : Strs] :
         /\ op' = [op EXCEPT ![r] = o]
         /\ arg' = [arg EXCEPT ![r] =
               [id      |-> IF o \in {"get", "update", "delete"} THEN a.id ELSE None,
                title   |-> IF o \in {"create", "update"} THEN a.title ELSE None,
                content |-> IF o \in {"create", "update"} THEN a.content ELSE None]]
  /\ holder' = [holder EXCEPT ![r] = NewSession({ holder[q] : q \in Reqs } \ {NoSess}, r)]
  /\ pc' = [pc EXCEPT ![r] = "acquired"]
  /\ UNCHANGED << dbVars, note, committed, result, sessVars >>

\* The handler returns or raises: its parameters and locals are gone, the
\* result is kept.
Finish(r, res) ==
  /\ result' = [result EXCEPT ![r] = res]
  /\ op' = [op EXCEPT ![r] = "none"]
  /\ arg' = [arg EXCEPT ![r] = NoArg]
  /\ note' = [note EXCEPT ![r] = NoNote]
  /\ committed' = [committed EXCEPT ![r] = NoNote]
  /\ pc' = [pc EXCEPT ![r] = "done"]

\* AsyncSession.close(): roll back what is not committed, give the connection back.
CloseSession(s) ==
  /\ txn' = [txn EXCEPT ![s] = FALSE]
  /\ flushed' = [flushed EXCEPT ![s] = {}]

\* A dependency that closes the session only after a handler that returned.
ReleaseOnReturn(r) ==
  /\ pc[r] = "done"
  /\ result[r].status \in {"ok", "created"}
  /\ CloseSession(holder[r])
  /\ holder' = [holder EXCEPT ![r] = NoSess]
  /\ pc' = [pc EXCEPT ![r] = "idle"]
  /\ result' = [result EXCEPT ![r] = NoResult]
  /\ UNCHANGED << app, dbVars, op, arg, note, committed >>

\* notes_router.py: establish_session_to_db, after the yield: the async with
\* block exits, on a return and on an exception alike.
Release(r) ==
  /\ pc[r] = "done"
  /\ CloseSession(holder[r])
  /\ holder' = [holder EXCEPT ![r] = NoSess]
  /\ pc' = [pc EXCEPT ![r] = "idle"]
  /\ result' = [result EXCEPT ![r] = NoResult]
  /\ UNCHANGED << app, dbVars, op, arg, note, committed >>

\* ------------------------------------------------------------ unit of work
Columns == {"id", "title", "content", "date_created"}

\* What a flush writes for a loaded object: the attributes whose value differs
\* from the loaded one.
Changed(n, loadedNote) == { col \in Columns : n[col] /= loadedNote[col] }

\* UPDATE notes SET <cols> WHERE id = key
UpdateRows(rows, key, n, cols) ==
  { IF row.id = key
    THEN [col \in Columns |-> IF col \in cols THEN n[col] ELSE row[col]]
    ELSE row : row \in rows }

\* A delete that never reaches the store (session.delete not awaited).
DeleteRowsNotSent(rows, key) == rows

\* DELETE FROM notes WHERE id = key
DeleteRows(rows, key) == { row \in rows : row.id /= key }

\* An INSERT whose date_created has no default.
InsertedRowNoDefault(n, newId, now) ==
  Note(IF n.id = None THEN newId ELSE n.id, n.title, n.content, n.date_created)

\* INSERT INTO notes: the store generates the primary key, and date_created
\* takes its default, now(), when the object carries none (schemas.py).
InsertedRow(n, newId, now) ==
  Note(IF n.id = None THEN newId ELSE n.id, n.title, n.content,
       IF n.date_created = None THEN now ELSE n.date_created)

\* ------------------------------------------------------------ GET /notes/
\* notes_router.py: get_all_notes -> crud.py: Crud.get_all_notes
ListAll(r) ==
  /\ pc[r] = "acquired" /\ op[r] = "list"
  /\ txn' = [txn EXCEPT ![holder[r]] = TRUE]
  /\ Finish(r, Ok("list", GetAllNotes(View(holder[r])), NoMsg))
  /\ UNCHANGED << app, dbVars, holder, flushed >>

\* ------------------------------------------------------- GET /notes/{id}
\* notes_router.py: get_note_by_id -> crud.py: Crud.get_note
GetNote(r) ==
  /\ pc[r] = "acquired" /\ op[r] = "get"
  /\ txn' = [txn EXCEPT ![holder[r]] = TRUE]
  /\ LET n == GetNoteByIdHelper(View(holder[r]), arg[r].id)
     IN  Finish(r, IF n = NoNote THEN NotFound("get", arg[r].id) ELSE Ok("get", << n >>, NoMsg))
  /\ UNCHANGED << app, dbVars, holder, flushed >>

\* ----------------------------------------------------------- POST /notes/
\* notes_router.py: create_note builds the Note from the request.
NewNote(request) == Note(None, request.title, request.content, None)

\* crud.py: Crud.add_new_note, the message it returns.
CreatedMsg(n) ==
  [kind |-> "created", title |-> n.title, id |-> n.id, date_created |-> n.date_created]

\* crud.py: Crud.add_new_note -- add(new_note); await flush().  The INSERT runs
\* in the session's transaction; the object gets its primary key, the
\* store-side default is not loaded yet.
AddFlush(r) ==
  /\ pc[r] = "acquired" /\ op[r] = "create"
  /\ \E newId \in FreeIds, now \in Times :
       LET row == InsertedRow(NewNote(arg[r]), newId, now)
       IN  /\ flushed' = [flushed EXCEPT ![holder[r]] = @ \cup {row}]
           /\ note' = [note EXCEPT ![r] = [NewNote(arg[r]) EXCEPT !.id = row.id]]
  /\ txn' = [txn EXCEPT ![holder[r]] = TRUE]
  /\ pc' = [pc EXCEPT ![r] = "flushed"]
  /\ UNCHANGED << app, dbVars, op, arg, holder, committed, result >>

\* An add without the read-back: the object keeps what the flush gave it.
AddNoRefresh(r) ==
  /\ pc[r] = "flushed" /\ op[r] = "create"
  /\ pc' = [pc EXCEPT ![r] = "refreshed"]
  /\ UNCHANGED << app, dbVars, op, arg, holder, note, committed, result, sessVars >>

\* crud.py: Crud.add_new_note -- await refresh(new_note): the row is read back
\* by primary key inside the transaction.
AddRefresh(r) ==
  /\ pc[r] = "flushed" /\ op[r] = "create"
  /\ note' = [note EXCEPT ![r] = GetNoteByIdHelper(View(holder[r]), note[r].id)]
  /\ pc' = [pc EXCEPT ![r] = "refreshed"]
  /\ UNCHANGED << app, dbVars, op, arg, holder, committed, result, sessVars >>

\* crud.py: Crud.add_new_note -- await commit(); return the message.
AddCommit(r) ==
  /\ pc[r] = "refreshed" /\ op[r] = "create"
  /\ table' = table \cup flushed[holder[r]]
  /\ flushed' = [flushed EXCEPT ![holder[r]] = {}]
  /\ txn' = [txn EXCEPT ![holder[r]] = FALSE]
  /\ Finish(r, Created("create", CreatedMsg(note[r])))
  /\ UNCHANGED << app, tableExists, holder >>

\* ----------------------------------------------------- PATCH /notes/{id}
\* An update that also stamps the object anew.
AssignUpdateStamped(n, data) ==
  [n EXCEPT !.title = data.title, !.content = data.content, !.date_created = None]

\* crud.py: Crud.update_note, lines 44-45: the two assignments.
AssignUpdate(n, data) == [n EXCEPT !.title = data.title, !.content = data.content]

UpdatedMsg(n) ==
  [kind |-> "updated", title |-> n.title, id |-> None, date_created |-> None]

\* crud.py: Crud.update_note -- the helper's round trip, then the assignments.
UpdateLoad(r) ==
  /\ pc[r] = "acquired" /\ op[r] = "update"
  /\ txn' = [txn EXCEPT ![holder[r]] = TRUE]
  /\ LET n == GetNoteByIdHelper(View(holder[r]), arg[r].id)
     IN  IF n = NoNote
         THEN Finish(r, NotFound("update", arg[r].id))
         ELSE /\ note' = [note EXCEPT ![r] = AssignUpdate(n, arg[r])]
              /\ committed' = [committed EXCEPT ![r] = n]
              /\ pc' = [pc EXCEPT ![r] = "loaded"]
              /\ UNCHANGED << result, op, arg >>
  /\ UNCHANGED << app, dbVars, holder, flushed >>

\* crud.py: Crud.update_note -- await commit(): the flush sends an UPDATE of the
\* changed columns, if any; an UPDATE that matches no row raises
\* StaleDataError, which nothing catches.
UpdateCommit(r) ==
  /\ pc[r] = "loaded" /\ op[r] = "update"
  /\ LET cols == Changed(note[r], committed[r])
         key  == committed[r].id
     IN  IF cols /= {} /\ key \notin IdsOf(table)
         THEN /\ Finish(r, ServerError("update"))
              /\ UNCHANGED << table, txn >>
         ELSE /\ table' = IF cols = {} THEN table
                          ELSE UpdateRows(table, key, note[r], cols)
              /\ txn' = [txn EXCEPT ![holder[r]] = FALSE]
              /\ Finish(r, Ok("update", << >>, UpdatedMsg(note[r])))
  /\ UNCHANGED << app, tableExists, holder, flushed >>

\* ---------------------------------------------------- DELETE /notes/{id}
RemovedMsg(n) ==
  [kind |-> "removed", title |-> n.title, id |-> n.id, date_created |-> None]

\* crud.py: Crud.delete_note -- the helper's round trip.
DeleteLoad(r) ==
  /\ pc[r] = "acquired" /\ op[r] = "delete"
  /\ txn' = [txn EXCEPT ![holder[r]] = TRUE]
  /\ LET n == GetNoteByIdHelper(View(holder[r]), arg[r].id)
     IN  IF n = NoNote
         THEN Finish(r, NotFound("delete", arg[r].id))
         ELSE /\ note' = [note EXCEPT ![r] = n]
              /\ committed' = [committed EXCEPT ![r] = n]
              /\ pc' = [pc EXCEPT ![r] = "loaded"]
              /\ UNCHANGED << result, op, arg >>
  /\ UNCHANGED << app, dbVars, holder, flushed >>

\* crud.py: Crud.delete_note -- await delete(note); await commit().  The flush
\* sends the DELETE; a DELETE that matches no row is only warned about.
DeleteCommit(r) ==
  /\ pc[r] = "loaded" /\ op[r] = "delete"
  /\ table' = DeleteRows(table, note[r].id)
  /\ txn' = [txn EXCEPT ![holder[r]] = FALSE]
  /\ Finish(r, Ok("delete", << >>, RemovedMsg(note[r])))
  /\ UNCHANGED << app, tableExists, holder, flushed >>

\* ----------------------------------------------------------- store failure
\* A failure under autocommit: what was flushed stays in the table.
StoreFailureAutocommit(r) ==
  /\ pc[r] \in {"acquired", "flushed", "refreshed", "loaded"}
  /\ Finish(r, ServerError(op[r]))
  /\ table' = table \cup flushed[holder[r]]
  /\ flushed' = [flushed EXCEPT ![holder[r]] = {}]
  /\ UNCHANGED << app, tableExists, holder, txn >>

\* Any round trip can fail (connection lost, timeout); no CRUD function and no
\* handler catches it.
StoreFailure(r) ==
  /\ pc[r] \in {"acquired", "flushed", "refreshed", "loaded"}
  /\ Finish(r, ServerError(op[r]))
  /\ UNCHANGED << app, dbVars, holder, sessVars >>

\* ------------------------------------------------------------ specification
Init ==
  /\ app = "stopped"
  /\ tableExists = FALSE
  /\ table = {}
  /\ pc = [r \in Reqs |-> "idle"]
  /\ op = [r \in Reqs |-> "none"]
  /\ arg = [r \in Reqs |-> NoArg]
  /\ holder = [r \in Reqs |-> NoSess]
  /\ note = [r \in Reqs |-> NoNote]
  /\ committed = [r \in Reqs |-> NoNote]
  /\ result = [r \in Reqs |-> NoResult]
  /\ txn = [s \in Sessions |-> FALSE]
  /\ flushed = [s \in Sessions |-> {}]

\* The steps of request r after its session is injected.
Handle(r) ==
  \/ ListAll(r)
  \/ GetNote(r)
  \/ AddFlush(r)
  \/ AddRefresh(r)
  \/ AddCommit(r)
  \/ UpdateLoad(r)
  \/ UpdateCommit(r)
  \/ DeleteLoad(r)
  \/ DeleteCommit(r)
  \/ StoreFailure(r)

Next ==
  \/ Startup
  \/ Shutdown
  \/ ResetDb
  \/ \E r \in Reqs : Acquire(r)
  \/ \E r \in Reqs : Handle(r)
  \/ \E r \in Reqs : Release(r)

Spec == Init /\ [][Next]_vars

\* The same program with every request body and every now() the same value:
\* what a session goes through does not depend on the text of a note.
Plain ==
  /\ \A r \in Reqs : arg[r].title \in {None, Min(Strs)} /\ arg[r].content \in {None, Min(Strs)}
  /\ \A s \in Sessions : \A row \in flushed[s] : row.date_created = Min(Times)

PlainNext ==
  \/ Startup
  \/ Shutdown
  \/ ResetDb
  \/ \E r \in Reqs : Acquire(r) /\ Plain'
  \/ \E r \in Reqs : Handle(r) /\ Plain'
  \/ \E r \in Reqs : Release(r)

\* The event loop resumes every coroutine whose await has completed, with the
\* round trip's result or its failure, and the dependency's exit runs once the
\* handler has ended.
FairSpec ==
  /\ Init
  /\ [][PlainNext]_vars
  /\ \A r \in Reqs : WF_vars((Handle(r) /\ Plain') \/ Release(r))

\* ------------------------------------------------------------------ claims

\* C1: when add(T, C) commits, reading the assigned id gives the note with
\* title T, content C, a non-null id and a non-null creation timestamp (the
\* ones the response carries); a read by id returns the committed row; and
\* while a row exists no step changes its creation timestamp.
C1_AddThenGet ==
  [][ /\ \A r \in Reqs :
           AddCommit(r) =>
             LET m == result'[r].msg
             IN  /\ m.id /= None
                 /\ m.date_created /= None
                 /\ GetNoteByIdHelper(table', m.id) =
                      Note(m.id, arg[r].title, arg[r].content, m.date_created)
      /\ \A r \in Reqs :
           (GetNote(r) /\ result'[r].status = "ok") =>
             /\ result'[r].notes[1] \in table
             /\ result'[r].notes[1].id = arg[r].id
      /\ \A a \in table, b \in table' :
           a.id = b.id => a.date_created = b.date_created
    ]_vars

\* A created note has been read back by id while it is still in the table.
C1_Witness ==
  \E r, q \in Reqs :
    /\ result[r].status = "created"
    /\ result[q].op = "get" /\ result[q].status = "ok"
    /\ result[q].notes[1] \in table
    /\ result[q].notes[1].id = result[r].msg.id
    /\ result[q].notes[1].title = result[r].msg.title
    /\ result[q].notes[1].date_created = result[r].msg.date_created

\* C2: get, update and delete of an id that has no row end with NotFound from
\* the helper's round trip, leave the table and every uncommitted row as they
\* were, commit nothing (the transaction the read began stays open until the
\* session is closed), and the request's only later step, the release, does
\* not touch the table either.
C2_NotFoundNoChange ==
  [][ \A r \in Reqs :
        /\ ( /\ pc[r] = "acquired"
             /\ op[r] \in {"get", "update", "delete"}
             /\ arg[r].id \notin IdsOf(table)
             /\ (GetNote(r) \/ UpdateLoad(r) \/ DeleteLoad(r)) )
           => /\ result'[r] = NotFound(op[r], arg[r].id)
              /\ pc'[r] = "done"
              /\ txn'[holder[r]]
              /\ table' = table
              /\ flushed' = flushed
        /\ (result[r].status = "not_found" /\ pc'[r] /= pc[r])
           => /\ Release(r)
              /\ table' = table
    ]_vars

\* A delete of a missing id has been answered NotFound while other rows exist.
C2_Witness ==
  \E r \in Reqs :
    /\ result[r].op = "delete" /\ result[r].status = "not_found"
    /\ table /= {}
    /\ result[r].msg.id \notin IdsOf(table)

\* C3: when update(id, new_title, new_content) of an existing note commits and
\* answers success, the row's title and content are the new values, its id and
\* creation timestamp are what they were, and every other row is unchanged.
\* Stated for the updates that write, those whose new title or content differs
\* from the one they read.
C3_UpdateSetsTitleAndContent ==
  [][ \A r \in Reqs :
        ( /\ UpdateCommit(r)
          /\ result'[r].status = "ok"
          /\ Changed(note[r], committed[r]) /= {}
          /\ committed[r].id \in IdsOf(table) )
        => LET id     == committed[r].id
               before == GetNoteByIdHelper(table, id)
           IN  /\ GetNoteByIdHelper(table', id) =
                    Note(id, arg[r].title, arg[r].content, before.date_created)
               /\ IdsOf(table') = IdsOf(table)
               /\ \A row \in table : row.id /= id => row \in table'
    ]_vars

\* C4: when delete(id) commits, a read of that id finds nothing, the listing
\* holds no note with that id, and every other row is still there, unchanged.
C4_DeleteRemoves ==
  [][ \A r \in Reqs :
        DeleteCommit(r) =>
          LET id      == note[r].id
              listing == GetAllNotes(table')
          IN  /\ result'[r] = Ok("delete", << >>, RemovedMsg(note[r]))
              /\ GetNoteByIdHelper(table', id) = NoNote
              /\ \A k \in 1..Len(listing) : listing[k].id /= id
              /\ table' = { row \in table : row.id /= id }
    ]_vars

\* A delete has succeeded, a later read of the same id was answered NotFound,
\* and another note is still in the table.
C4_Witness ==
  \E r, q \in Reqs :
    /\ result[r].op = "delete" /\ result[r].status = "ok"
    /\ result[q].op = "get" /\ result[q].status = "not_found"
    /\ result[q].msg.id = result[r].msg.id
    /\ result[r].msg.id \notin IdsOf(table)
    /\ table /= {}

\* C5: the delete of an existing row succeeds and removes it; a second delete
\* of the same id, run after the first has returned and before the id is used
\* again, is answered NotFound and leaves the table as the first left it.
C5_DeleteTwice ==
  [][ \A r \in Reqs :
        /\ (DeleteCommit(r) /\ note[r].id \in IdsOf(table))
           => /\ result'[r].status = "ok"
              /\ result'[r].msg.id = note[r].id
              /\ note[r].id \notin IdsOf(table')
        /\ ( /\ DeleteLoad(r)
             /\ \E q \in Reqs \ {r} :
                  /\ result[q].op = "delete" /\ result[q].status = "ok"
                  /\ result[q].msg.id = arg[r].id
             /\ arg[r].id \notin IdsOf(table) )
           => /\ result'[r] = NotFound("delete", arg[r].id)
              /\ table' = table
    ]_vars

\* Two deletes of one id have run one after the other: the first succeeded,
\* the second was answered NotFound.
C5_Witness ==
  \E r, q \in Reqs :
    /\ result[r].op = "delete" /\ result[r].status = "ok"
    /\ result[q].op = "delete" /\ result[q].status = "not_found"
    /\ result[q].msg.id = result[r].msg.id

\* C6: the listing holds exactly the committed rows, each once, in strictly
\* ascending order of id, and listing changes no row.
C6_ListAllOrdered ==
  [][ \A r \in Reqs :
        ListAll(r) =>
          LET ns == result'[r].notes
          IN  /\ { ns[k] : k \in 1..Len(ns) } = table
              /\ Len(ns) = Cardinality(table)
              /\ \A k \in 1..(Len(ns) - 1) : ns[k].id < ns[k + 1].id
              /\ table' = table
              /\ flushed' = flushed
    ]_vars

\* A listing of more than one note has been returned.
C6_Witness ==
  \E r \in Reqs :
    /\ result[r].op = "list" /\ result[r].status = "ok"
    /\ Len(result[r].notes) > 1
    /\ result[r].notes[1].id < result[r].notes[2].id

\* C7: no two rows ever share an id; an update leaves the set of ids as it is;
\* every row carries an id and a creation timestamp, and a row keeps its
\* timestamp in every step, whatever the interleaving.
UniqueIds == \A a, b \in table : a.id = b.id => a = b

C7_IdAndTimestampStable ==
  /\ []UniqueIds
  /\ [][ /\ \A r \in Reqs : UpdateCommit(r) => IdsOf(table') = IdsOf(table)
         /\ \A b \in table' : b.id /= None /\ b.date_created /= None
         /\ \A a \in table, b \in table' :
              a.id = b.id => a.date_created = b.date_created
       ]_vars

\* An update has been committed on a table of more than one note.
C7_Witness ==
  \E r \in Reqs :
    /\ result[r].op = "update" /\ result[r].status = "ok"
    /\ Cardinality(table) > 1
    /\ \E row \in table : row.title = result[r].msg.title

\* C8: a request that holds a session gives it up in the end, whether its
\* handler returned, raised NotFound or met a store failure; a request that
\* has ended holds none, and a session nobody holds has no connection.
C8_SessionReleased ==
  /\ [](\A r \in Reqs : pc[r] = "idle" => holder[r] = NoSess)
  /\ [](\A s \in Sessions : s \notin { holder[r] : r \in Reqs } => ~txn[s])
  /\ \A r \in Reqs : (holder[r] /= NoSess) ~> (holder[r] = NoSess)
  /\ \A r \in Reqs : \A st \in {"ok", "created", "not_found", "server_error"} :
       (pc[r] = "done" /\ result[r].status = st) ~> (pc[r] = "idle" /\ holder[r] = NoSess)

\* Requests have been served since the start, and every session is back.
C8_Witness ==
  /\ app = "running"
  /\ table /= {}
  /\ \A r \in Reqs : pc[r] = "idle" /\ holder[r] = NoSess
  /\ \A s \in Sessions : ~txn[s] /\ flushed[s] = {}

\* C9: no two requests hold the same session; a session no request holds has
\* no open transaction and no uncommitted row; a request that has ended holds
\* no session; and closing a session commits nothing.
SessionPerRequest ==
  /\ \A r, q \in Reqs : (r /= q /\ holder[r] /= NoSess) => holder[r] /= holder[q]
  /\ \A s \in Sessions :
       s \notin { holder[r] : r \in Reqs } => (~txn[s] /\ flushed[s] = {})
  /\ \A r \in Reqs : pc[r] = "idle" <=> holder[r] = NoSess

C9_SessionPerRequest ==
  /\ []SessionPerRequest
  /\ [][ \A r \in Reqs : Release(r) =>
           /\ table' = table
           /\ ~txn'[holder[r]]
           /\ flushed'[holder[r]] = {} ]_vars

\* Two requests are in flight, each in its own transaction, one of them with an
\* uncommitted insert.
C9_Witness ==
  \E r, q \in Reqs :
    /\ r /= q
    /\ holder[r] /= NoSess /\ holder[q] /= NoSess
    /\ txn[holder[r]] /\ txn[holder[q]]
    /\ flushed[holder[r]] /= {}

\* C10: the start creates the table when it is absent and leaves an existing
\* table and its rows as they are; the stop touches neither; and no step of a
\* request drops the table or removes a row other than the one row a delete
\* names.
C10_StartupKeepsTable ==
  [][ /\ Startup => (tableExists' /\ (tableExists => table' = table))
      /\ Shutdown => (tableExists' = tableExists /\ table' = table)
      /\ \A r \in Reqs :
           (Acquire(r) \/ Handle(r) \/ Release(r)) =>
             /\ tableExists' = tableExists
             /\ IdsOf(table) \ IdsOf(table') \subseteq
                  (IF op[r] = "delete" THEN {note[r].id} ELSE {})
    ]_vars

\* The application has been started on a table that already held rows.
C10_Witness == app = "started" /\ table /= {}

\* C11 as stated: what add returns is the Note, the committed row with all its
\* fields.
C11_ReturnsNote ==
  [][ \A r \in Reqs :
        AddCommit(r) => result'[r].notes = << note[r] >>
    ]_vars

\* C11: add runs insert and flush (one uncommitted row, the table untouched,
\* the object gets its id), then the read-back (the object becomes the row of
\* the store), then the commit (the table gains exactly that row); the commit
\* is the only step of an add that changes the table, and nothing follows it
\* but the release.  What add returns is a message that carries the title,
\* the id and the creation timestamp of the committed row.
C11_AddSteps ==
  [][ \A r \in Reqs :
        LET s == holder[r]
        IN  /\ AddFlush(r) =>
                 /\ pc[r] = "acquired"
                 /\ table' = table
                 /\ \E row \in flushed'[s] :
                      /\ flushed'[s] = flushed[s] \cup {row}
                      /\ Cardinality(flushed'[s]) = 1
                      /\ row.id \notin IdsOf(table)
                      /\ row.title = arg[r].title /\ row.content = arg[r].content
                      /\ note'[r].id = row.id
            /\ AddRefresh(r) =>
                 /\ pc[r] = "flushed"
                 /\ table' = table /\ flushed' = flushed
                 /\ note'[r] \in flushed[s]
            /\ AddCommit(r) =>
                 /\ pc[r] = "refreshed"
                 /\ note[r] \notin table
                 /\ table' = table \cup {note[r]}
                 /\ Cardinality(table') = Cardinality(table) + 1
                 /\ flushed'[s] = {} /\ ~txn'[s]
                 /\ result'[r].status = "created"
                 /\ result'[r].msg.title = note[r].title
                 /\ result'[r].msg.id = note[r].id
                 /\ result'[r].msg.date_created = note[r].date_created
                 /\ note[r].id /= None /\ note[r].date_created /= None
            /\ (op[r] = "create" /\ pc'[r] /= pc[r] /\ table' /= table) => AddCommit(r)
            /\ (result[r].op = "create" /\ pc'[r] /= pc[r]) => (Release(r) /\ table' = table)
    ]_vars

\* An add has returned, and the row its message names is in the table.
C11_Witness ==
  \E r \in Reqs :
    /\ result[r].op = "create" /\ result[r].status = "created"
    /\ \E row \in table :
         /\ row.id = result[r].msg.id
         /\ row.title = result[r].msg.title
         /\ row.date_created = result[r].msg.date_created

C13_DeleteSerializable ==
  [][ \A r \in Reqs :
        /\ ( /\ \/ DeleteCommit(r)
                \/ UpdateCommit(r) /\ Changed(note[r], committed[r]) /= {}
             /\ committed[r].id \notin IdsOf(table)
             /\ \E q \in Reqs \ {r} :
                  /\ result[q].op = "delete" /\ result[q].status = "ok"
                  /\ result[q].msg.id = committed[r].id )
           => (result'[r].status = "not_found" /\ table' = table)
        /\ UpdateCommit(r) => IdsOf(table') \subseteq IdsOf(table)
    ]_vars

====
